---- MODULE Spec2Model ----
(***************************************************************************)
(* The asteroids game of CSSE_project: the game engine (game.c), the lives *)
(* counter (lives.c), the main loop (project.c), the score display         *)
(* (seven_seg.c) and the joystick queue (joystick.c).                      *)
(*                                                                         *)
(* The engine's arrays are modelled by their live prefix: asteroids is the *)
(* sequence asteroids[0 .. numAsteroids-1] and projectiles the sequence    *)
(* projectiles[0 .. numProjectiles-1] (the code never reads a slot at or   *)
(* beyond the count).  Indices are the code's, from 0; element i of the    *)
(* code is element i+1 of the sequence.                                    *)
(*                                                                         *)
(* The engine's functions are operators on a record g of the engine's      *)
(* globals.  A function that may call random() is a set-valued operator:   *)
(* the set of the results it can return.                                   *)
(***************************************************************************)
EXTENDS Integers, Sequences, FiniteSets, TLC

\* ------------------------------------------------------------------------
\* Program constants
FIELD_WIDTH == 8
FIELD_HEIGHT == 16
\* The two direction codes of game.h, whose values the engine only compares.
MOVE_LEFT == "MOVE_LEFT"
MOVE_RIGHT == "MOVE_RIGHT"
INITIAL_LIVES == 4
NO_BUTTON_PUSHED == -1
ESCAPE_CHAR == 27
\* uint32_t lives: the value 0 - 1 wraps to.  TLC's integers end at 2^31 - 1,
\* which stands here for 2^32 - 1.
UINT32_MAX == 2147483647

\* ------------------------------------------------------------------------
\* Bounds of the model
\* Capacity of the asteroid and of the projectile array (game.h).
MAX_ASTEROIDS == 5
MAX_PROJECTILES == 2
\* Events of one game: engine calls of the caller (Spec); input arrivals and
\* due movement gates (SpecGame).
MaxEvents == 5
\* Capacity of the button queue and of the serial input buffer.
MaxButtons == 1
MaxSerial == 1

\* The values random() takes in the model: the columns (of 0 .. FIELD_WIDTH-1)
\* that initialise_game and add_asteroid draw, and the rows (of
\* 3 .. FIELD_HEIGHT-1) that initialise_game draws.  add_asteroid draws either
\* of the top two rows.  The columns are those the base covers at the start and
\* one beside it, so that asteroids reach the base within MaxEvents.
RandomColumns == 3 .. 5
InitRows == 3 .. 4

\* ------------------------------------------------------------------------
\* Positions
U8(v) == v % 256

GAME_POSITION(x, y) == U8(x * 16) + (y % 16)

GET_X_POSITION(posn) == posn \div 16

GET_Y_POSITION(posn) == posn % 16

\* The code's index of the first element of seq equal to v, -1 if none.
IndexOf(seq, v) ==
    IF \E i \in 1 .. Len(seq) : seq[i] = v
    THEN (CHOOSE i \in 1 .. Len(seq) :
              seq[i] = v /\ \A j \in 1 .. (i - 1) : seq[j] # v) - 1
    ELSE -1

numAsteroids(g) == Len(g.asteroids)

numProjectiles(g) == Len(g.projectiles)

\* The parameters are uint8_t: the caller's int is converted.
asteroid_at(g, x, y) == IndexOf(g.asteroids, GAME_POSITION(U8(x), U8(y)))

projectile_at(g, x, y) == IndexOf(g.projectiles, GAME_POSITION(U8(x), U8(y)))

\* base_at without the test of the side cells of lines 399 to 404.
base_at_centre_only(g, x, y) ==
    IF U8(y) > 1 THEN FALSE ELSE U8(x) = g.basePosition

base_at(g, x, y) ==
    IF U8(y) > 1 THEN FALSE
    ELSE IF U8(x) = g.basePosition THEN TRUE
    ELSE IF U8(y) = 0
         THEN U8(x) = g.basePosition - 1 \/ U8(x) = g.basePosition + 1
         ELSE FALSE

\* ------------------------------------------------------------------------
\* lives.c
get_lives(g) == g.lives

add_to_lives(g, value) ==
    [g EXCEPT !.lives = IF g.lives + value < 0 THEN UINT32_MAX + (g.lives + value + 1)
                        ELSE g.lives + value]

init_lives(g) == [g EXCEPT !.lives = INITIAL_LIVES]

\* is_game_over that never reports the end of the game.
is_game_over_never(g) == FALSE

is_game_over(g) == get_lives(g) = 0

\* subtract_life without the get_lives() != 0 test of line 374.
subtract_life_unguarded(g) == add_to_lives(g, -1)

subtract_life(g) == IF get_lives(g) # 0 THEN add_to_lives(g, -1) ELSE g

\* score.c
add_to_score(g, value) == [g EXCEPT !.score = g.score + value]

init_score(g) == [g EXCEPT !.score = 0]

\* ------------------------------------------------------------------------
\* Removal and creation
remove_asteroid(g, asteroidNumber) ==
    IF asteroidNumber < 0 \/ asteroidNumber >= numAsteroids(g) THEN g
    ELSE LET n == numAsteroids(g)
             a == g.asteroids
         IN  [g EXCEPT !.asteroids =
                 [i \in 1 .. (n - 1) |->
                     IF i = asteroidNumber + 1 THEN a[n] ELSE a[i]]]

remove_projectile(g, projectileNumber) ==
    IF projectileNumber < 0 \/ projectileNumber >= numProjectiles(g) THEN g
    ELSE LET n == numProjectiles(g)
             p == g.projectiles
         IN  [g EXCEPT !.projectiles =
                 [i \in 1 .. (n - 1) |->
                     IF i < projectileNumber + 1 THEN p[i] ELSE p[i + 1]]]

\* The do-while of add_asteroid ends with the first (x, y) drawn that holds
\* no asteroid: the results are the free cells random() can draw.
add_asteroid(g) ==
    { [g EXCEPT !.asteroids = Append(g.asteroids, GAME_POSITION(x, y))] :
        <<x, y>> \in { c \in RandomColumns \X {FIELD_HEIGHT - 1, FIELD_HEIGHT - 2} :
                         asteroid_at(g, c[1], c[2]) = -1 } }

\* handle_collision without the add_asteroid() of line 540.
handle_collision_no_respawn(g, asteroidIndex, projectileIndex) ==
    { add_to_score(remove_asteroid(remove_projectile(g, projectileIndex), asteroidIndex), 1) }

\* handle_collision without the remove_asteroid() of line 539.
handle_collision_no_removal(g, asteroidIndex, projectileIndex) ==
    { add_to_score(h, 1) : h \in add_asteroid(remove_projectile(g, projectileIndex)) }

handle_collision(g, asteroidIndex, projectileIndex) ==
    { add_to_score(h, 1) :
        h \in add_asteroid(remove_asteroid(remove_projectile(g, projectileIndex),
                                           asteroidIndex)) }


\* ------------------------------------------------------------------------
\* Engine entry points.  A result is a record: g the globals afterwards, ret
\* the return value (-1: void), hit whether redraw_hit_base ran.
Result(g, ret, hit) == [g |-> g, ret |-> ret, hit |-> hit]

\* The layouts initialise_game can leave: n distinct cells of rows 3 and up,
\* in the order drawn.
RECURSIVE Layouts(_)
Layouts(n) ==
    IF n = 0 THEN { <<>> }
    ELSE { Append(sc[1], GAME_POSITION(sc[2][1], sc[2][2])) :
             sc \in { t \in Layouts(n - 1) \X (RandomColumns \X InitRows) :
                        IndexOf(t[1], GAME_POSITION(t[2][1], t[2][2])) = -1 } }

AllLayouts == Layouts(MAX_ASTEROIDS)

\* The layouts drawn in increasing order of position.
SortedLayouts ==
    { s \in AllLayouts : \A i \in 1 .. (Len(s) - 1) : s[i] < s[i + 1] }

initialise_game(g, layouts) ==
    { [g EXCEPT !.basePosition = 3, !.projectiles = <<>>, !.asteroids = s] :
        s \in layouts }

\* The removals of move_base without those of lines 207 and 208.
RemoveStruck_centre_only(g) ==
    remove_asteroid(g, asteroid_at(g, g.basePosition, 1))

\* The three removals of move_base, each with the index asteroid_at finds
\* after the removal before it.
RemoveStruck(g) ==
    LET g1 == remove_asteroid(g, asteroid_at(g, g.basePosition, 1))
        g2 == remove_asteroid(g1, asteroid_at(g1, g1.basePosition - 1, 0))
    IN  remove_asteroid(g2, asteroid_at(g2, g2.basePosition + 1, 0))

\* move_base without the two edge tests of lines 189 and 193.
move_base_unchecked(g, direction) ==
    LET left  == direction = MOVE_LEFT
        right == ~left /\ direction = MOVE_RIGHT
        m     == [g EXCEPT !.basePosition = IF left THEN g.basePosition - 1
                                            ELSE g.basePosition + 1]
    IN  IF left \/ right
        THEN IF \/ asteroid_at(m, m.basePosition, 1) # -1
                \/ asteroid_at(m, m.basePosition - 1, 0) # -1
                \/ asteroid_at(m, m.basePosition + 1, 0) # -1
             THEN Result(RemoveStruck(subtract_life(m)), 1, TRUE)
             ELSE Result(m, 1, FALSE)
        ELSE Result(g, 0, FALSE)

\* move_base without the strike test of lines 204 to 211.
move_base_no_strike(g, direction) ==
    LET left  == direction = MOVE_LEFT /\ g.basePosition # 0
        right == ~left /\ direction = MOVE_RIGHT /\ g.basePosition # 7
        m     == [g EXCEPT !.basePosition = IF left THEN g.basePosition - 1
                                            ELSE g.basePosition + 1]
    IN  IF left \/ right THEN Result(m, 1, FALSE) ELSE Result(g, 0, FALSE)

move_base(g, direction) ==
    LET left  == direction = MOVE_LEFT /\ g.basePosition # 0
        right == ~left /\ direction = MOVE_RIGHT /\ g.basePosition # 7
        m     == [g EXCEPT !.basePosition = IF left THEN g.basePosition - 1
                                            ELSE g.basePosition + 1]
    IN  IF left \/ right
        THEN IF \/ asteroid_at(m, m.basePosition, 1) # -1
                \/ asteroid_at(m, m.basePosition - 1, 0) # -1
                \/ asteroid_at(m, m.basePosition + 1, 0) # -1
             THEN Result(RemoveStruck(subtract_life(m)), 1, TRUE)
             ELSE Result(m, 1, FALSE)
        ELSE Result(g, 0, FALSE)

\* fire_projectile without the projectile_at() test of line 231.
fire_projectile_any_cell(g) ==
    IF numProjectiles(g) < MAX_PROJECTILES
    THEN LET newProjectileNumber == numProjectiles(g)
             f == [g EXCEPT !.projectiles =
                      Append(g.projectiles, GAME_POSITION(g.basePosition, 2))]
             asteroidLocation == asteroid_at(f, f.basePosition, 2)
         IN  IF asteroidLocation # -1
             THEN { Result(h, 1, FALSE) :
                      h \in handle_collision(f, asteroidLocation, newProjectileNumber) }
             ELSE { Result(f, 1, FALSE) }
    ELSE { Result(g, 0, FALSE) }

\* fire_projectile without the collision test of lines 236 to 240.
fire_projectile_no_collision(g) ==
    IF numProjectiles(g) < MAX_PROJECTILES /\ projectile_at(g, g.basePosition, 2) = -1
    THEN { Result([g EXCEPT !.projectiles =
                      Append(g.projectiles, GAME_POSITION(g.basePosition, 2))], 1, FALSE) }
    ELSE { Result(g, 0, FALSE) }

\* fire_projectile with <= for the < of line 230.
fire_projectile_full(g) ==
    IF numProjectiles(g) <= MAX_PROJECTILES /\ projectile_at(g, g.basePosition, 2) = -1
    THEN LET newProjectileNumber == numProjectiles(g)
             f == [g EXCEPT !.projectiles =
                      Append(g.projectiles, GAME_POSITION(g.basePosition, 2))]
             asteroidLocation == asteroid_at(f, f.basePosition, 2)
         IN  IF asteroidLocation # -1
             THEN { Result(h, 1, FALSE) :
                      h \in handle_collision(f, asteroidLocation, newProjectileNumber) }
             ELSE { Result(f, 1, FALSE) }
    ELSE { Result(g, 0, FALSE) }

fire_projectile(g) ==
    IF numProjectiles(g) < MAX_PROJECTILES /\ projectile_at(g, g.basePosition, 2) = -1
    THEN LET newProjectileNumber == numProjectiles(g)
             f == [g EXCEPT !.projectiles =
                      Append(g.projectiles, GAME_POSITION(g.basePosition, 2))]
             asteroidLocation == asteroid_at(f, f.basePosition, 2)
         IN  IF asteroidLocation # -1
             THEN { Result(h, 1, FALSE) :
                      h \in handle_collision(f, asteroidLocation, newProjectileNumber) }
             ELSE { Result(f, 1, FALSE) }
    ELSE { Result(g, 0, FALSE) }

\* One iteration of the while loop of advance_asteroids or advance_projectiles:
\* the globals afterwards, the next asteroidNumber / projectileNumber, and
\* whether redraw_hit_base ran.
Iter(g, next, hit) == [g |-> g, next |-> next, hit |-> hit]

\* The iteration with an add_asteroid() after the remove_asteroid() of line 286.
advance_asteroids_iter_respawn(g, asteroidNumber) ==
    LET x  == GET_X_POSITION(g.asteroids[asteroidNumber + 1])
        y0 == GET_Y_POSITION(g.asteroids[asteroidNumber + 1])
        y1 == U8(y0 - 1)
        y  == IF asteroid_at(g, x, y1) # -1 THEN U8(y1 + 1) ELSE y1
        projectile_location == projectile_at(g, x, y)
    IN  IF projectile_location # -1
        THEN { Iter(h, asteroidNumber, FALSE) :
                 h \in handle_collision(g, asteroidNumber, projectile_location) }
        ELSE IF base_at(g, x, y)
        THEN { Iter(h, asteroidNumber, TRUE) :
                 h \in add_asteroid(remove_asteroid(subtract_life(g), asteroidNumber)) }
        ELSE { Iter([g EXCEPT !.asteroids[asteroidNumber + 1] = GAME_POSITION(x, y)],
                    asteroidNumber + 1, FALSE) }

\* The iteration without the blocked-move test of lines 266 to 268.
advance_asteroids_iter_unblocked(g, asteroidNumber) ==
    LET x  == GET_X_POSITION(g.asteroids[asteroidNumber + 1])
        y  == U8(GET_Y_POSITION(g.asteroids[asteroidNumber + 1]) - 1)
        projectile_location == projectile_at(g, x, y)
    IN  IF projectile_location # -1
        THEN { Iter(h, asteroidNumber, FALSE) :
                 h \in handle_collision(g, asteroidNumber, projectile_location) }
        ELSE IF base_at(g, x, y)
        THEN { Iter(remove_asteroid(subtract_life(g), asteroidNumber),
                    asteroidNumber, TRUE) }
        ELSE { Iter([g EXCEPT !.asteroids[asteroidNumber + 1] = GAME_POSITION(x, y)],
                    asteroidNumber + 1, FALSE) }

advance_asteroids_iter(g, asteroidNumber) ==
    LET x  == GET_X_POSITION(g.asteroids[asteroidNumber + 1])
        y0 == GET_Y_POSITION(g.asteroids[asteroidNumber + 1])
        y1 == U8(y0 - 1)
        y  == IF asteroid_at(g, x, y1) # -1 THEN U8(y1 + 1) ELSE y1
        projectile_location == projectile_at(g, x, y)
    IN  \* y is a uint8_t, promoted to int for the comparison: 0 .. 255
        IF y = -1
        THEN { Iter(h, asteroidNumber, FALSE) :
                 h \in add_asteroid(remove_asteroid(g, asteroidNumber)) }
        ELSE IF projectile_location # -1
        THEN { Iter(h, asteroidNumber, FALSE) :
                 h \in handle_collision(g, asteroidNumber, projectile_location) }
        ELSE IF base_at(g, x, y)
        THEN { Iter(remove_asteroid(subtract_life(g), asteroidNumber),
                    asteroidNumber, TRUE) }
        ELSE { Iter([g EXCEPT !.asteroids[asteroidNumber + 1] = GAME_POSITION(x, y)],
                    asteroidNumber + 1, FALSE) }

advance_projectiles_iter(g, projectileNumber) ==
    LET x == GET_X_POSITION(g.projectiles[projectileNumber + 1])
        y == U8(GET_Y_POSITION(g.projectiles[projectileNumber + 1]) + 1)
        asteroid_location == asteroid_at(g, x, y)
    IN  IF y = FIELD_HEIGHT
        THEN { Iter(remove_projectile(g, projectileNumber), projectileNumber, FALSE) }
        ELSE IF asteroid_location # -1
        THEN { Iter(h, projectileNumber, FALSE) :
                 h \in handle_collision(g, asteroid_location, projectileNumber) }
        ELSE { Iter([g EXCEPT !.projectiles[projectileNumber + 1] = GAME_POSITION(x, y)],
                    projectileNumber + 1, FALSE) }

\* new_game without the init_lives() of line 141.
new_game_no_init_lives(g, layouts) == { init_score(h) : h \in initialise_game(g, layouts) }

\* project.c: new_game
new_game(g, layouts) == { init_lives(init_score(h)) : h \in initialise_game(g, layouts) }

\* ------------------------------------------------------------------------
\* Input (project.c: play_game, lines 176 to 207)
\* button_pushed() and fgetc(stdin) take the oldest queued event.

\* The escape-sequence decoder on one byte: the new value of
\* characters_into_escape_sequence, serial_input and escape_sequence_char.
Decoded(esc, si, ec) == [esc |-> esc, serial_input |-> si, escape_sequence_char |-> ec]

\* The decoder without the serial_input = -1 of line 197: the last byte of an
\* escape sequence is also processed as a plain character.
DecodeByte_passthrough(characters_into_escape_sequence, byte) ==
    IF characters_into_escape_sequence = 0 /\ byte = ESCAPE_CHAR
    THEN Decoded(1, -1, -1)
    ELSE IF characters_into_escape_sequence = 1 /\ byte = 91
    THEN Decoded(2, -1, -1)
    ELSE IF characters_into_escape_sequence = 2
    THEN Decoded(0, byte, byte)
    ELSE Decoded(0, byte, -1)

DecodeByte(characters_into_escape_sequence, byte) ==
    IF characters_into_escape_sequence = 0 /\ byte = ESCAPE_CHAR
    THEN Decoded(1, -1, -1)
    ELSE IF characters_into_escape_sequence = 1 /\ byte = 91
    THEN Decoded(2, -1, -1)
    ELSE IF characters_into_escape_sequence = 2
    THEN Decoded(0, -1, byte)
    ELSE Decoded(0, byte, -1)

\* The branch of the if-chain of play_game (lines 210 to 251) taken.
Command(button, escape_sequence_char, serial_input) ==
    IF button = 3 \/ escape_sequence_char = 68 \/ serial_input = 76 \/ serial_input = 108
    THEN "left"
    ELSE IF button = 2 \/ escape_sequence_char = 65 \/ serial_input = 32
    THEN "fire"
    ELSE IF button = 1 \/ escape_sequence_char = 66
    THEN "ignore"
    ELSE IF button = 0 \/ escape_sequence_char = 67 \/ serial_input = 82 \/ serial_input = 114
    THEN "right"
    ELSE IF serial_input = 112 \/ serial_input = 80
    THEN "pause"
    ELSE "none"

\* ------------------------------------------------------------------------
\* State
\*   basePosition .. score   the globals of game.c, lives.c and score.c
\*   pc, idx                 where the caller is; the loop index of a running
\*                           advance_asteroids / advance_projectiles
\*   ret                     return value of the last engine call (-1: void)
\*   buttonQ, serialQ        button pushes and serial bytes not yet read
\*   esc                     characters_into_escape_sequence of play_game
\*   events                  events of the current game so far
\*   hits                    history: the times redraw_hit_base has run in the
\*                           current game
\*   clock                   clock_ticks of timer0: the millisecond counter
\*                           that get_current_time() returns
\*   current_time, last_move_time, last_move_asteroid
\*                           the locals of play_game
\*   previous_time, seven_seg_cc, display_value
\*                           the globals of seven_seg.c
\*   PORTA                   the segment output of the display (PORTA in one
\*                           revision of seven_seg.c, PORTC in the other)
\*   revision                the revision of seven_seg.c that is linked
\*   refreshed_at            history: the time on the clock of the last call
\*                           of display_data that passed its gate
\*   ticks                   the timer interrupts taken so far
\*   pending, done           history of the advance pass that is running: the
\*                           positions of the members present at its start
\*                           that it has not handled yet, and the positions
\*                           it has moved such members to
\*   joystick_queue .. left_right_cal
\*                           the globals of joystick.c
\*   recorded, returned      history: the movements step_joystick has stored
\*                           and those joystick_moved has returned, in order
\*   written                 history: the indices of joystick_queue written
VARIABLES basePosition, projectiles, asteroids, lives, score,
          pc, idx, ret, buttonQ, serialQ, esc, events, hits,
          clock, current_time, last_move_time, last_move_asteroid,
          previous_time, seven_seg_cc, display_value, PORTA, revision,
          refreshed_at, ticks, pending, done,
          joystick_queue, queue_length, x_or_y, up_down_cal, left_right_cal,
          recorded, returned, written

engine == <<basePosition, projectiles, asteroids, lives, score>>
input == <<buttonQ, serialQ, esc>>
passes == <<pending, done>>
joystick == <<joystick_queue, queue_length, x_or_y, up_down_cal, left_right_cal,
              recorded, returned, written>>
display == <<previous_time, seven_seg_cc, display_value, PORTA>>
sched == <<clock, current_time, last_move_time, last_move_asteroid,
           previous_time, seven_seg_cc, display_value, PORTA, revision,
           refreshed_at, ticks>>
vars == <<basePosition, projectiles, asteroids, lives, score,
          pc, idx, ret, buttonQ, serialQ, esc, events, hits,
          clock, current_time, last_move_time, last_move_asteroid,
          previous_time, seven_seg_cc, display_value, PORTA, revision,
          refreshed_at, ticks, pending, done,
          joystick_queue, queue_length, x_or_y, up_down_cal, left_right_cal,
          recorded, returned, written>>

G == [basePosition |-> basePosition, projectiles |-> projectiles,
      asteroids |-> asteroids, lives |-> lives, score |-> score]

Set(g) ==
    /\ basePosition' = g.basePosition
    /\ projectiles' = g.projectiles
    /\ asteroids' = g.asteroids
    /\ lives' = g.lives
    /\ score' = g.score

\* The globals before initialise_game has run (.bss).
Zero == [basePosition |-> 0, projectiles |-> <<>>, asteroids |-> <<>>,
         lives |-> 0, score |-> 0]

\* uint32_t.  The model checker's integers end at 2^31 - 1, so a 32-bit
\* unsigned value is kept as its two 16-bit halves and the arithmetic of C
\* (modulo 2^32) is done half by half.
HALF == 65536

U32(hi, lo) == [hi |-> hi, lo |-> lo]

\* The uint32_t with the value n, 0 <= n < 2^31.
ToU32(n) == U32(n \div HALF, n % HALF)

\* a + b
Add32(a, b) ==
    LET lo == a.lo + b.lo
    IN  U32((a.hi + b.hi + lo \div HALF) % HALF, lo % HALF)

\* -a
Neg32(a) == Add32(U32(HALF - 1 - a.hi, HALF - 1 - a.lo), ToU32(1))

\* a - b
Sub32(a, b) == Add32(a, Neg32(b))

\* a * n for a small n
Mul32(a, n) ==
    LET lo == a.lo * n
    IN  U32((a.hi * n + lo \div HALF) % HALF, lo % HALF)

\* a < b, a >= b, a > b
Lt32(a, b) == a.hi < b.hi \/ (a.hi = b.hi /\ a.lo < b.lo)
Geq32(a, b) == ~Lt32(a, b)
Gt32(a, b) == Lt32(b, a)

\* joystick.c as the program is loaded: queue_length = -1, the rest .bss.
JOYSTICK_Q_SIZE == 4
NO_JOYSTICK_MOVEMENT == -1

JoystickIdle ==
    /\ joystick_queue = [i \in 0 .. (JOYSTICK_Q_SIZE - 1) |-> 0]
    /\ queue_length = -1
    /\ x_or_y = 0
    /\ up_down_cal = 0 /\ left_right_cal = 0
    /\ recorded = <<>> /\ returned = <<>> /\ written = {}

\* The clock and the display before initialise_hardware has run (.bss).  The
\* specifications that do not model time leave them so.
SchedIdle ==
    /\ clock = ToU32(0) /\ current_time = ToU32(0)
    /\ last_move_time = ToU32(0) /\ last_move_asteroid = ToU32(0)
    /\ previous_time = ToU32(0) /\ seven_seg_cc = 0
    /\ display_value = 0 /\ PORTA = 0
    /\ revision = "part_003" /\ refreshed_at = ToU32(0) /\ ticks = 0

\* History of an advance pass.  StartPass: the pass begins on collection.
\* Handled: an iteration has handled the member in slot idx of collection,
\* leaving the collection after and going on with slot next (next = idx + 1
\* when the member was moved, idx when it was removed).
StartPass(collection) ==
    /\ pending' = { collection[i] : i \in 1 .. Len(collection) }
    /\ done' = {}

Handled(collection, after, next) ==
    /\ pending' = pending \ {collection[idx + 1]}
    /\ done' = IF collection[idx + 1] \in pending /\ next = idx + 1
               THEN done \cup {after[idx + 1]} ELSE done

NoPass == pending' = {} /\ done' = {}

\* (void)button_pushed(); clear_serial_input_buffer();
DiscardInput(bq) == IF bq = <<>> THEN <<>> ELSE Tail(bq)

\* The effect of an engine step: the globals, and the input thrown away at
\* the end of redraw_hit_base when the base was struck.  bq and sq are the
\* queues as the step found them.
Apply(r, bq, sq) ==
    /\ Set(r.g)
    /\ buttonQ' = IF r.hit THEN DiscardInput(bq) ELSE bq
    /\ serialQ' = IF r.hit THEN <<>> ELSE sq
    /\ hits' = IF r.hit THEN hits + 1 ELSE hits

\* ------------------------------------------------------------------------
\* Spec: the engine under any caller.  The caller makes engine calls in any
\* order, at most MaxEvents of them per game, and starts a new game once the
\* game is over.
Init ==
    /\ \E g \in new_game(Zero, AllLayouts) :
          /\ basePosition = g.basePosition
          /\ projectiles = g.projectiles
          /\ asteroids = g.asteroids
          /\ lives = g.lives
          /\ score = g.score
    /\ pc = "idle" /\ idx = 0 /\ ret = -1
    /\ buttonQ = <<>> /\ serialQ = <<>> /\ esc = 0
    /\ events = 0 /\ hits = 0
    /\ SchedIdle
    /\ pending = {} /\ done = {}
    /\ JoystickIdle

CallNewGame ==
    /\ pc = "idle" /\ is_game_over(G)
    /\ \E g \in new_game(G, AllLayouts) : Set(g)
    /\ events' = 0 /\ hits' = 0 /\ ret' = -1
    /\ UNCHANGED <<pc, idx, input>>
    /\ UNCHANGED sched
    /\ UNCHANGED joystick
    /\ UNCHANGED passes

MoveBaseCall(direction) ==
    /\ pc = "idle" /\ events < MaxEvents
    /\ LET r == move_base(G, direction)
       IN  Apply(r, buttonQ, serialQ) /\ ret' = r.ret
    /\ events' = events + 1
    /\ UNCHANGED <<pc, idx, esc>>
    /\ UNCHANGED sched
    /\ UNCHANGED joystick
    /\ UNCHANGED passes

CallMoveBase == \E direction \in {MOVE_LEFT, MOVE_RIGHT} : MoveBaseCall(direction)

CallFireProjectile ==
    /\ pc = "idle" /\ events < MaxEvents
    /\ \E r \in fire_projectile(G) : Apply(r, buttonQ, serialQ) /\ ret' = r.ret
    /\ events' = events + 1
    /\ UNCHANGED <<pc, idx, esc>>
    /\ UNCHANGED sched
    /\ UNCHANGED joystick
    /\ UNCHANGED passes

CallAdvanceProjectiles ==
    /\ pc = "idle" /\ events < MaxEvents
    /\ pc' = "advance_projectiles" /\ idx' = 0 /\ ret' = -1
    /\ events' = events + 1
    /\ UNCHANGED <<engine, input, hits>>
    /\ UNCHANGED sched
    /\ UNCHANGED joystick
    /\ StartPass(projectiles)

IterAdvanceProjectiles ==
    /\ pc = "advance_projectiles" /\ idx < Len(projectiles)
    /\ \E r \in advance_projectiles_iter(G, idx) :
          /\ Apply(r, buttonQ, serialQ) /\ idx' = r.next
          /\ Handled(projectiles, r.g.projectiles, r.next)
    /\ UNCHANGED <<pc, ret, esc, events>>
    /\ UNCHANGED sched
    /\ UNCHANGED joystick

EndAdvanceProjectiles ==
    /\ pc = "advance_projectiles" /\ ~(idx < Len(projectiles))
    /\ pc' = "idle" /\ idx' = 0
    /\ UNCHANGED <<engine, ret, input, events, hits>>
    /\ UNCHANGED sched
    /\ UNCHANGED joystick
    /\ NoPass

CallAdvanceAsteroids ==
    /\ pc = "idle" /\ events < MaxEvents
    /\ pc' = "advance_asteroids" /\ idx' = 0 /\ ret' = -1
    /\ events' = events + 1
    /\ UNCHANGED <<engine, input, hits>>
    /\ UNCHANGED sched
    /\ UNCHANGED joystick
    /\ StartPass(asteroids)

IterAdvanceAsteroids ==
    /\ pc = "advance_asteroids" /\ idx < Len(asteroids)
    /\ \E r \in advance_asteroids_iter(G, idx) :
          /\ Apply(r, buttonQ, serialQ) /\ idx' = r.next
          /\ Handled(asteroids, r.g.asteroids, r.next)
    /\ UNCHANGED <<pc, ret, esc, events>>
    /\ UNCHANGED sched
    /\ UNCHANGED joystick

EndAdvanceAsteroids ==
    /\ pc = "advance_asteroids" /\ ~(idx < Len(asteroids))
    /\ pc' = "idle" /\ idx' = 0
    /\ UNCHANGED <<engine, ret, input, events, hits>>
    /\ UNCHANGED sched
    /\ UNCHANGED joystick
    /\ NoPass

Next ==
    \/ CallNewGame
    \/ CallMoveBase
    \/ CallFireProjectile
    \/ CallAdvanceProjectiles
    \/ IterAdvanceProjectiles
    \/ EndAdvanceProjectiles
    \/ CallAdvanceAsteroids
    \/ IterAdvanceAsteroids
    \/ EndAdvanceAsteroids

Spec == Init /\ [][Next]_vars

\* ------------------------------------------------------------------------
\* SpecGame: the program of project.c.  main() shows the splash screen, then
\* loops over new_game, play_game and handle_game_over.  Button pushes and
\* serial bytes arrive by interrupt at any time.  Time is not modelled: a
\* movement gate of play_game may or may not be due when it is tested.

\* The buttons and the serial bytes the player sends:
\* ESC, '[', 'A' (cursor up), 'C' (cursor right), 'D' (cursor left),
\* ' ' (fire), 'p' (pause), 'r' (right).
Buttons == 0 .. 3
SerialBytes == {ESCAPE_CHAR, 91, 65, 67, 68, 32, 112, 114}

InitGame ==
    /\ basePosition = Zero.basePosition
    /\ projectiles = Zero.projectiles
    /\ asteroids = Zero.asteroids
    /\ lives = Zero.lives
    /\ score = Zero.score
    /\ pc = "splash" /\ idx = 0 /\ ret = -1
    /\ buttonQ = <<>> /\ serialQ = <<>> /\ esc = 0
    /\ events = 0 /\ hits = 0
    /\ SchedIdle
    /\ pending = {} /\ done = {}
    /\ JoystickIdle

\* Interrupts.
ButtonPush ==
    /\ Len(buttonQ) < MaxButtons /\ events < MaxEvents
    /\ \E b \in Buttons : buttonQ' = Append(buttonQ, b)
    /\ events' = events + 1
    /\ UNCHANGED <<engine, pc, idx, ret, serialQ, esc, hits>>
    /\ UNCHANGED sched
    /\ UNCHANGED joystick
    /\ UNCHANGED passes

SerialReceive ==
    /\ Len(serialQ) < MaxSerial /\ events < MaxEvents
    /\ \E c \in SerialBytes : serialQ' = Append(serialQ, c)
    /\ events' = events + 1
    /\ UNCHANGED <<engine, pc, idx, ret, buttonQ, esc, hits>>
    /\ UNCHANGED sched
    /\ UNCHANGED joystick
    /\ UNCHANGED passes

\* splash_screen: returns when a button has been pushed.
SplashScreen ==
    /\ pc = "splash" /\ buttonQ # <<>>
    /\ buttonQ' = Tail(buttonQ)
    /\ pc' = "new_game"
    /\ UNCHANGED <<engine, idx, ret, serialQ, esc, events, hits>>
    /\ UNCHANGED sched
    /\ UNCHANGED joystick
    /\ UNCHANGED passes

\* new_game, and the entry of play_game.
NewGame ==
    /\ pc = "new_game"
    /\ \E g \in new_game(G, SortedLayouts) : Set(g)
    /\ buttonQ' = DiscardInput(buttonQ) /\ serialQ' = <<>>
    /\ esc' = 0 /\ events' = 0 /\ hits' = 0 /\ ret' = -1
    /\ pc' = "play"
    /\ UNCHANGED idx
    /\ UNCHANGED sched
    /\ UNCHANGED joystick
    /\ UNCHANGED passes

\* Lines 176 to 207 of play_game: what one pass samples, the queues and the
\* decoder state it leaves, and the command it selects.
Sampled ==
    LET button == IF buttonQ = <<>> THEN NO_BUTTON_PUSHED ELSE Head(buttonQ)
        reads  == button = NO_BUTTON_PUSHED /\ serialQ # <<>>
        d      == IF reads THEN DecodeByte(esc, Head(serialQ)) ELSE Decoded(esc, -1, -1)
    IN  [bq  |-> DiscardInput(buttonQ),
         sq  |-> IF reads THEN Tail(serialQ) ELSE serialQ,
         esc |-> d.esc,
         cmd |-> Command(button, d.escape_sequence_char, d.serial_input)]

\* while(!is_game_over()) of play_game
InLoop == pc = "play" /\ ~is_game_over(G)

LeavePlay ==
    /\ pc = "play" /\ is_game_over(G)
    /\ pc' = "game_over"
    /\ UNCHANGED <<engine, idx, ret, input, events, hits>>
    /\ UNCHANGED sched
    /\ UNCHANGED joystick
    /\ UNCHANGED passes

\* A pass of the loop that waits for input before it goes on to the gates.
PollNone_blocking ==
    /\ InLoop /\ Sampled.cmd \in {"none", "ignore"}
    /\ buttonQ # <<>> \/ serialQ # <<>>
    /\ buttonQ' = Sampled.bq /\ serialQ' = Sampled.sq /\ esc' = Sampled.esc
    /\ pc' = "gate_p" /\ ret' = -1
    /\ UNCHANGED <<engine, idx, events, hits>>
    /\ UNCHANGED sched
    /\ UNCHANGED joystick
    /\ UNCHANGED passes

\* A pass of the loop with no input, or with input that selects no engine call.
PollNone ==
    /\ InLoop /\ Sampled.cmd \in {"none", "ignore"}
    /\ buttonQ' = Sampled.bq /\ serialQ' = Sampled.sq /\ esc' = Sampled.esc
    /\ pc' = "gate_p" /\ ret' = -1
    /\ UNCHANGED <<engine, idx, events, hits>>
    /\ UNCHANGED sched
    /\ UNCHANGED joystick
    /\ UNCHANGED passes

DispatchMoveBase(direction) ==
    /\ InLoop
    /\ Sampled.cmd = (IF direction = MOVE_LEFT THEN "left" ELSE "right")
    /\ \E r \in {move_base(G, direction)} :
          Apply(r, Sampled.bq, Sampled.sq) /\ ret' = r.ret
    /\ esc' = Sampled.esc
    /\ pc' = "gate_p"
    /\ UNCHANGED <<idx, events>>
    /\ UNCHANGED sched
    /\ UNCHANGED joystick
    /\ UNCHANGED passes

DispatchMove == \E direction \in {MOVE_LEFT, MOVE_RIGHT} : DispatchMoveBase(direction)

DispatchFire ==
    /\ InLoop /\ Sampled.cmd = "fire"
    /\ \E r \in fire_projectile(G) : Apply(r, Sampled.bq, Sampled.sq) /\ ret' = r.ret
    /\ esc' = Sampled.esc
    /\ pc' = "gate_p"
    /\ UNCHANGED <<idx, events>>
    /\ UNCHANGED sched
    /\ UNCHANGED joystick
    /\ UNCHANGED passes

DispatchPause ==
    /\ InLoop /\ Sampled.cmd = "pause"
    /\ buttonQ' = Sampled.bq /\ serialQ' = Sampled.sq /\ esc' = Sampled.esc
    /\ pc' = "paused" /\ ret' = -1
    /\ UNCHANGED <<engine, idx, events, hits>>
    /\ UNCHANGED sched
    /\ UNCHANGED joystick
    /\ UNCHANGED passes

\* The inner while(1) of the pause branch: reads serial bytes until 'p' or 'P'.
PausedRead ==
    /\ pc = "paused" /\ serialQ # <<>>
    /\ serialQ' = Tail(serialQ)
    /\ pc' = IF Head(serialQ) \in {112, 80} THEN "gate_p" ELSE "paused"
    /\ UNCHANGED <<engine, idx, ret, buttonQ, esc, events, hits>>
    /\ UNCHANGED sched
    /\ UNCHANGED joystick
    /\ UNCHANGED passes

\* if(!is_game_over() && current_time >= last_move_time + 200)
GateProjectiles ==
    /\ pc = "gate_p"
    /\ \E due \in BOOLEAN :
          /\ due => events < MaxEvents
          /\ IF ~is_game_over(G) /\ due
             THEN /\ pc' = "advance_projectiles" /\ events' = events + 1
                  /\ StartPass(projectiles)
             ELSE pc' = "gate_a" /\ events' = events /\ NoPass
    /\ idx' = 0 /\ ret' = -1
    /\ UNCHANGED <<engine, input, hits>>
    /\ UNCHANGED sched
    /\ UNCHANGED joystick

GameEndAdvanceProjectiles ==
    /\ pc = "advance_projectiles" /\ ~(idx < Len(projectiles))
    /\ pc' = "gate_a" /\ idx' = 0
    /\ UNCHANGED <<engine, ret, input, events, hits>>
    /\ UNCHANGED sched
    /\ UNCHANGED joystick
    /\ NoPass

\* if(current_time >= last_move_asteroid + 1000 - get_score() * 5)
GateAsteroids ==
    /\ pc = "gate_a"
    /\ \E due \in BOOLEAN :
          /\ due => events < MaxEvents
          /\ IF due
             THEN /\ pc' = "advance_asteroids" /\ events' = events + 1
                  /\ StartPass(asteroids)
             ELSE pc' = "play" /\ events' = events /\ NoPass
    /\ idx' = 0 /\ ret' = -1
    /\ UNCHANGED <<engine, input, hits>>
    /\ UNCHANGED sched
    /\ UNCHANGED joystick

GameEndAdvanceAsteroids ==
    /\ pc = "advance_asteroids" /\ ~(idx < Len(asteroids))
    /\ pc' = "play" /\ idx' = 0
    /\ UNCHANGED <<engine, ret, input, events, hits>>
    /\ UNCHANGED sched
    /\ UNCHANGED joystick
    /\ NoPass

\* handle_game_over whose wait also ends on a serial byte, which it reads.
HandleGameOver_any_input ==
    /\ pc = "game_over" /\ (buttonQ # <<>> \/ serialQ # <<>>)
    /\ buttonQ' = DiscardInput(buttonQ)
    /\ serialQ' = IF buttonQ = <<>> THEN Tail(serialQ) ELSE serialQ
    /\ Set(init_lives(G))
    /\ pc' = "new_game"
    /\ UNCHANGED <<idx, ret, esc, events, hits>>
    /\ UNCHANGED sched
    /\ UNCHANGED joystick
    /\ UNCHANGED passes

\* handle_game_over: waits for a button, then init_lives().
HandleGameOver ==
    /\ pc = "game_over" /\ buttonQ # <<>>
    /\ buttonQ' = Tail(buttonQ)
    /\ Set(init_lives(G))
    /\ pc' = "new_game"
    /\ UNCHANGED <<idx, ret, serialQ, esc, events, hits>>
    /\ UNCHANGED sched
    /\ UNCHANGED joystick
    /\ UNCHANGED passes

NextGame ==
    \/ ButtonPush
    \/ SerialReceive
    \/ SplashScreen
    \/ NewGame
    \/ LeavePlay
    \/ PollNone
    \/ DispatchMove
    \/ DispatchFire
    \/ DispatchPause
    \/ PausedRead
    \/ GateProjectiles
    \/ IterAdvanceProjectiles
    \/ GameEndAdvanceProjectiles
    \/ GateAsteroids
    \/ IterAdvanceAsteroids
    \/ GameEndAdvanceAsteroids
    \/ HandleGameOver

SpecGame == InitGame /\ [][NextGame]_vars

\* ------------------------------------------------------------------------
\* SpecSched: the timing of play_game.  The loop reads the clock once per
\* pass and tests the two movement gates and the display gate against it;
\* the timer interrupt advances the clock between any two of these steps.
\* The engine calls are kept to what they do to the timing: a strike of the
\* base costs a life and runs redraw_hit_base, which waits and then sets the
\* clock back.

\* seven_seg.c
seven_seg_data == <<63, 6, 91, 79, 102, 109, 125, 7, 127, 111>>

D == [previous_time |-> previous_time, seven_seg_cc |-> seven_seg_cc,
      display_value |-> display_value, PORTA |-> PORTA]

SetD(d) ==
    /\ previous_time' = d.previous_time
    /\ seven_seg_cc' = d.seven_seg_cc
    /\ display_value' = d.display_value
    /\ PORTA' = d.PORTA

\* The digit of value that is driven when the digit-select flag is cc.
Digit(value, cc) == IF cc = 0 THEN value % 10 ELSE (value \div 10) % 10

\* if (current_time > previous_time + 3)  in part_003,
\* if (current_time >= previous_time + 3) in part_004
RefreshGate(rev, now, prev) ==
    IF rev = "part_003" THEN Gt32(now, Add32(prev, ToU32(3)))
    ELSE Geq32(now, Add32(prev, ToU32(3)))

\* display_data that flips the digit-select flag whatever the value.
display_data_always_flips(d, rev, now) ==
    IF RefreshGate(rev, now, d.previous_time)
    THEN LET cc == 1 - d.seven_seg_cc
         IN  [d EXCEPT !.previous_time = now,
                       !.seven_seg_cc = cc,
                       !.PORTA = seven_seg_data[Digit(d.display_value, cc) + 1]]
    ELSE d

display_data(d, rev, now) ==
    IF RefreshGate(rev, now, d.previous_time)
    THEN LET cc == IF d.display_value < 10 THEN 0 ELSE 1 - d.seven_seg_cc
         IN  [d EXCEPT !.previous_time = now,
                       !.seven_seg_cc = cc,
                       !.PORTA = seven_seg_data[Digit(d.display_value, cc) + 1]]
    ELSE d

update_time(d, time) == [d EXCEPT !.previous_time = time]

\* set_value(uint16_t value)
set_value(d, value) == [d EXCEPT !.display_value = value % HALF]

\* current_time >= last_move_time + 200
ProjectilesDue(now, last) == Geq32(now, Add32(last, ToU32(200)))

\* current_time >= last_move_asteroid + 1000 - get_score() * 5
AsteroidsDue(now, last, sc) ==
    Geq32(now, Sub32(Add32(last, ToU32(1000)), Mul32(ToU32(sc), 5)))

\* Bound: the timer interrupts are taken in at most MaxTicks groups.
MaxTicks == 3

\* The milliseconds that pass between two steps of the loop, the clock
\* readings a run starts from (the last four are 2^32 - 1000 .. 2^32 - 1) and
\* the scores it is played at.
Deltas == {1, 3, 200, 1000}
Clocks == {ToU32(0), ToU32(5000)} \cup
          {Neg32(ToU32(n)) : n \in {1, 3, 200, 1000}}
Scores == {0, 42, 199, 200, 201}

\* The time between two refreshes of the display: the gate of part_003 passes
\* from previous_time + 4 on, that of part_004 from previous_time + 3 on.
RefreshInterval(rev) == IF rev = "part_003" THEN 4 ELSE 3

\* redraw_hit_base without set_clock_ticks(start_time): the clock keeps the
\* second the loop has waited.
redraw_hit_base_no_rebase(d, rev, start, at) ==
    LET entered == Lt32(start, Add32(start, ToU32(1000)))
        shown == IF ~entered THEN { [d |-> d, at |-> at] }
                 ELSE { [d |-> [d EXCEPT !.seven_seg_cc = cc,
                                         !.PORTA = seven_seg_data[Digit(d.display_value, cc) + 1]],
                         at |-> Sub32(start, ToU32(k))] :
                          <<cc, k>> \in (IF d.display_value < 10 THEN {0} ELSE {0, 1})
                                          \X (1 .. RefreshInterval(rev)) }
    IN  { [clock |-> IF entered THEN Add32(start, ToU32(1000)) ELSE start,
           d |-> update_time(r.d, Sub32(start, ToU32(3))),
           at |-> r.at] : r \in shown }

\* redraw_hit_base, entered with the clock at start: what it leaves of the
\* clock and the display.  while(current_time < start_time + 1000) refreshes
\* the display for a second and ends at start_time + 1000: the digit it ends
\* on, and the k milliseconds between its last refresh and its end, depend on
\* the timing of the loop.  The loop is not entered at all when
\* start_time + 1000 overflows.  Then update_time(start_time - 3) and
\* set_clock_ticks(start_time), which moves the clock back by 1000 ms: on the
\* clock as it is set, the last refresh was made at start_time - k.
redraw_hit_base(d, rev, start, at) ==
    LET entered == Lt32(start, Add32(start, ToU32(1000)))
        shown == IF ~entered THEN { [d |-> d, at |-> at] }
                 ELSE { [d |-> [d EXCEPT !.seven_seg_cc = cc,
                                         !.PORTA = seven_seg_data[Digit(d.display_value, cc) + 1]],
                         at |-> Sub32(start, ToU32(k))] :
                          <<cc, k>> \in (IF d.display_value < 10 THEN {0} ELSE {0, 1})
                                          \X (1 .. RefreshInterval(rev)) }
    IN  { [clock |-> start,
           d |-> update_time(r.d, Sub32(start, ToU32(3))),
           at |-> r.at] : r \in shown }

\* The end of a pass of the loop in which both gates were due and the display
\* was refreshed.
SchedInit ==
    /\ basePosition = Zero.basePosition
    /\ projectiles = Zero.projectiles
    /\ asteroids = Zero.asteroids
    /\ lives = INITIAL_LIVES
    /\ score \in Scores
    /\ pc = "play" /\ idx = 0 /\ ret = -1
    /\ buttonQ = <<>> /\ serialQ = <<>> /\ esc = 0
    /\ events = 0 /\ hits = 0
    /\ clock \in Clocks
    /\ current_time = clock
    /\ last_move_time = clock /\ last_move_asteroid = clock
    /\ previous_time = clock
    /\ display_value = score
    /\ seven_seg_cc \in (IF score < 10 THEN {0} ELSE {0, 1})
    /\ PORTA = seven_seg_data[Digit(display_value, seven_seg_cc) + 1]
    /\ revision \in {"part_003", "part_004"}
    /\ refreshed_at = clock /\ ticks = 0
    /\ pending = {} /\ done = {}
    /\ JoystickIdle

\* Timer interrupts: ms milliseconds pass.
TimerTicks ==
    /\ ticks < MaxTicks /\ pc # "game_over"
    /\ \E ms \in Deltas : clock' = Add32(clock, ToU32(ms))
    /\ ticks' = ticks + 1
    /\ UNCHANGED <<engine, pc, idx, ret, input, events, hits, current_time,
                   last_move_time, last_move_asteroid, display, revision,
                   refreshed_at>>
    /\ UNCHANGED passes
    /\ UNCHANGED joystick

\* A strike of the base inside an engine call: subtract_life() and
\* redraw_hit_base().
Strike ==
    /\ lives' = subtract_life(G).lives
    /\ hits' = hits + 1
    /\ \E r \in redraw_hit_base(D, revision, clock, refreshed_at) :
          /\ clock' = r.clock
          /\ SetD(r.d)
          /\ refreshed_at' = r.at

NoStrike == UNCHANGED <<lives, hits, clock, display, refreshed_at>>

\* Lines 176 to 259 of play_game: the input is served (a move_base may
\* strike the base), then current_time = get_current_time().
SchedPoll ==
    /\ pc = "play" /\ ~is_game_over(G)
    /\ Strike \/ NoStrike
    /\ current_time' = clock'
    /\ pc' = "gate_p"
    /\ UNCHANGED <<basePosition, projectiles, asteroids, score, idx, ret,
                   input, events, last_move_time, last_move_asteroid,
                   revision, ticks>>
    /\ UNCHANGED passes
    /\ UNCHANGED joystick

SchedLeavePlay ==
    /\ pc = "play" /\ is_game_over(G)
    /\ pc' = "game_over"
    /\ UNCHANGED <<engine, idx, ret, input, events, hits, sched>>
    /\ UNCHANGED passes
    /\ UNCHANGED joystick

\* Lines 260 to 267: advance_projectiles strikes no base.
SchedGateProjectiles ==
    /\ pc = "gate_p"
    /\ last_move_time' =
          IF ~is_game_over(G) /\ ProjectilesDue(current_time, last_move_time)
          THEN current_time ELSE last_move_time
    /\ pc' = "gate_a"
    /\ UNCHANGED <<engine, idx, ret, input, events, hits, clock, current_time,
                   last_move_asteroid, display, revision, refreshed_at, ticks>>
    /\ UNCHANGED passes
    /\ UNCHANGED joystick

\* Lines 269 to 276: advance_asteroids may strike the base.
SchedGateAsteroids ==
    /\ pc = "gate_a"
    /\ IF AsteroidsDue(current_time, last_move_asteroid, score)
       THEN (Strike \/ NoStrike) /\ last_move_asteroid' = current_time
       ELSE NoStrike /\ UNCHANGED last_move_asteroid
    /\ pc' = "display"
    /\ UNCHANGED <<basePosition, projectiles, asteroids, score, idx, ret,
                   input, events, current_time, last_move_time, revision,
                   ticks>>
    /\ UNCHANGED passes
    /\ UNCHANGED joystick

\* Lines 283 and 284: set_value(get_score()); display_data(current_time);
SchedDisplay ==
    /\ pc = "display"
    /\ LET d == display_data(set_value(D, score), revision, current_time)
       IN  /\ SetD(d)
           /\ refreshed_at' = IF RefreshGate(revision, current_time, previous_time)
                              THEN current_time ELSE refreshed_at
    /\ pc' = "play"
    /\ UNCHANGED <<engine, idx, ret, input, events, hits, clock, current_time,
                   last_move_time, last_move_asteroid, revision, ticks>>
    /\ UNCHANGED passes
    /\ UNCHANGED joystick

NextSched ==
    \/ TimerTicks
    \/ SchedPoll
    \/ SchedLeavePlay
    \/ SchedGateProjectiles
    \/ SchedGateAsteroids
    \/ SchedDisplay

SpecSched == SchedInit /\ [][NextSched]_vars

\* ------------------------------------------------------------------------
\* Properties

\* The base cannot move further in this direction.
AtEdge(direction) ==
    \/ direction = MOVE_LEFT /\ basePosition = 0
    \/ direction = MOVE_RIGHT /\ basePosition = FIELD_WIDTH - 1

\* C1: the base centre is always a column of the field, 0 <= basePosition <
\* FIELD_WIDTH; a move_base call towards the edge the base already stands at
\* returns 0 and changes none of basePosition, lives, score, asteroids and
\* projectiles.
C1_BaseStaysInField ==
    /\ [](basePosition >= 0 /\ basePosition < FIELD_WIDTH)
    /\ [][\A direction \in {MOVE_LEFT, MOVE_RIGHT} :
            MoveBaseCall(direction) /\ AtEdge(direction)
                => ret' = 0 /\ UNCHANGED engine]_vars

\* A move to the left was just rejected with the base in column 0 (no
\* projectile is live, so the rejected call was not a fire_projectile).
C1_Witness ==
    pc = "idle" /\ basePosition = 0 /\ ret = 0 /\ projectiles = <<>>

\* A member of the collection is at (x, y).
Occupies(collection, x, y) ==
    \E i \in 1 .. Len(collection) : collection[i] = 16 * x + y

\* fire_projectile has no free slot or no free cell above the base.
FireRejected ==
    \/ Len(projectiles) = MAX_PROJECTILES
    \/ Occupies(projectiles, basePosition, 2)

\* C2: a fire_projectile call made with numProjectiles = MAX_PROJECTILES, or
\* with a projectile at (basePosition, 2), returns 0 and leaves the
\* projectiles, the asteroids and the score as they were; any other call
\* returns 1.
C2_FireOnlyIfFree ==
    [][CallFireProjectile
         => IF FireRejected
            THEN ret' = 0 /\ UNCHANGED <<projectiles, asteroids, score>>
            ELSE ret' = 1]_vars

\* A fire_projectile was just rejected for want of a slot: the base is off the
\* edges (no move is rejected there) and the cell above it is free.
C2_Witness ==
    /\ pc = "idle" /\ ret = 0 /\ basePosition \in 1 .. (FIELD_WIDTH - 2)
    /\ Len(projectiles) = MAX_PROJECTILES
    /\ ~Occupies(projectiles, basePosition, 2)

\* What handle_collision(a, p) must leave of g: h.
CollisionOutcome(g, a, p, h) ==
    LET n == Len(g.asteroids)
    IN  /\ Len(h.asteroids) = n
        /\ { h.asteroids[i] : i \in 1 .. (n - 1) }
              = { g.asteroids[i] : i \in (1 .. n) \ {a + 1} }
        /\ h.asteroids[n] % 16 \in {FIELD_HEIGHT - 1, FIELD_HEIGHT - 2}
        /\ h.projectiles = SubSeq(g.projectiles, 1, p)
                              \o SubSeq(g.projectiles, p + 2, Len(g.projectiles))
        /\ h.score = g.score + 1
        /\ h.lives = g.lives /\ h.basePosition = g.basePosition

\* The states handle_collision can be called in: inside a movement loop the
\* current one and, where fire_projectile can be called and accepts, the one
\* with the new projectile appended.
CollisionStates ==
    IF pc \in {"advance_projectiles", "advance_asteroids"}
    THEN {G}
    ELSE IF pc \in {"idle", "play"} /\ ~FireRejected
    THEN {[G EXCEPT !.projectiles = Append(projectiles, 16 * basePosition + 2)]}
    ELSE {}

\* C3: for every valid asteroid index a and projectile index p,
\* handle_collision(a, p) removes asteroid a, adds one asteroid in the top two
\* rows (numAsteroids unchanged), removes projectile p (numProjectiles one
\* less) and adds 1 to the score; and every step of fire_projectile,
\* advance_projectiles and advance_asteroids that scores has exactly this
\* effect on the counts (fire_projectile having added its projectile first).
C3_CollisionEffect ==
    /\ [](\A g \in CollisionStates :
            \A a \in 0 .. (Len(g.asteroids) - 1), p \in 0 .. (Len(g.projectiles) - 1) :
               LET outcomes == handle_collision(g, a, p)
               IN  /\ outcomes # {}
                   /\ \A h \in outcomes : CollisionOutcome(g, a, p, h))
    /\ [][score' > score
            => /\ score' = score + 1
               /\ Len(asteroids') = Len(asteroids)
               /\ Len(projectiles') = Len(projectiles)
                                        - (IF pc \in {"idle", "play"} THEN 0 ELSE 1)]_vars

\* The second call of a game is an advance_projectiles that has scored: the
\* projectile fired by the first call met an asteroid.
C3_Witness ==
    pc = "advance_projectiles" /\ events = 2 /\ score = 1 /\ projectiles = <<>>

\* C4: the collections never hold more than their capacity: numAsteroids <=
\* MAX_ASTEROIDS and numProjectiles <= MAX_PROJECTILES in every state (a count
\* is the length of a sequence, so never negative).
C4_WithinCapacity ==
    /\ 0 <= Len(asteroids) /\ Len(asteroids) <= MAX_ASTEROIDS
    /\ 0 <= Len(projectiles) /\ Len(projectiles) <= MAX_PROJECTILES

\* Both collections are full after a replacement asteroid has been written
\* to the last slot.
C4_Witness ==
    score > 0 /\ Len(asteroids) = MAX_ASTEROIDS /\ Len(projectiles) = MAX_PROJECTILES

\* The members of the collection are pairwise different.
Distinct(collection) ==
    \A i, j \in 1 .. Len(collection) : i # j => collection[i] # collection[j]

\* C5: no two live asteroids are at the same position, in every state: between
\* calls and between the iterations of a movement loop.
C5_AsteroidsDistinct == Distinct(asteroids)

\* An asteroid has stepped below row 0: no asteroid has been respawned (the
\* score is 0) and the initial rows are 3 and up, yet one is in row 15.
C5_Witness ==
    score = 0 /\ \E i \in 1 .. Len(asteroids) : asteroids[i] % 16 = FIELD_HEIGHT - 1

\* C6: no two live projectiles are at the same position, in every state.
C6_ProjectilesDistinct == Distinct(projectiles)

\* Two projectiles are in flight in one column, one row apart, after an
\* advance_projectiles.
C6_Witness ==
    /\ pc = "idle" /\ Len(projectiles) >= 2
    /\ \E i \in 1 .. (Len(projectiles) - 1) : projectiles[i] = projectiles[i + 1] + 1
    /\ ~Occupies(projectiles, basePosition, 2)

\* C7: a fire_projectile call that is not rejected and finds an asteroid at
\* (basePosition, 2) returns 1, leaves the projectiles as they were (none at
\* (basePosition, 2)), leaves no asteroid at (basePosition, 2), leaves
\* numAsteroids unchanged and adds 1 to the score.
C7_FireIntoAsteroid ==
    [][CallFireProjectile /\ ~FireRejected /\ Occupies(asteroids, basePosition, 2)
         => /\ ret' = 1
            /\ projectiles' = projectiles
            /\ ~Occupies(projectiles', basePosition, 2)
            /\ ~Occupies(asteroids', basePosition, 2)
            /\ Len(asteroids') = Len(asteroids)
            /\ score' = score + 1]_vars

\* The second call of a game is a fire_projectile that returned 1, and the
\* score is 1 with no projectile live: it hit the asteroid the first call (an
\* advance_asteroids) had brought to (basePosition, 2).
C7_Witness ==
    /\ pc = "idle" /\ events = 2 /\ ret = 1
    /\ score = 1 /\ projectiles = <<>> /\ Len(asteroids) = MAX_ASTEROIDS

\* The positions of play_game's loop, and the steps of it that take input
\* from a queue to act on it.
InPlayGame ==
    pc \in {"play", "paused", "gate_p", "advance_projectiles", "gate_a", "advance_asteroids"}

SamplesInput == PollNone \/ DispatchMove \/ DispatchFire \/ DispatchPause \/ PausedRead

\* C8: in the program, a base strike (a step in which redraw_hit_base runs)
\* taken with lives = 1 leaves lives = 0 and is_game_over() true; from then
\* on no step of play_game samples or dispatches input, and the loop test
\* leads nowhere but to handle_game_over.
C8_LastLifeEndsGame ==
    /\ [][lives = 1 /\ hits' = hits + 1 => lives' = 0 /\ is_game_over(G)']_vars
    /\ [][lives = 0 /\ InPlayGame => ~SamplesInput]_vars
    /\ [][lives = 0 /\ pc = "play" /\ pc' # pc => pc' = "game_over"]_vars

\* The game is over after exactly INITIAL_LIVES strikes, and a serial byte that
\* arrived after the last strike waits unread.
C8_Witness ==
    pc = "game_over" /\ lives = 0 /\ hits = INITIAL_LIVES /\ serialQ # <<>>

\* C9: lives is INITIAL_LIVES (4) when a game starts and always within
\* 0 .. 4; only the start of a new game raises it; a base strike subtracts
\* exactly one while lives > 0 and leaves 0 at 0; nothing else changes it; and
\* is_game_over() holds exactly when lives = 0.
C9_LivesCounter ==
    /\ [](/\ 0 <= lives /\ lives <= INITIAL_LIVES
          /\ events = 0 /\ pc = "idle" => lives = INITIAL_LIVES
          /\ is_game_over(G) <=> lives = 0)
    /\ [][CallNewGame => lives' = INITIAL_LIVES]_vars
    /\ [][lives' > lives => CallNewGame]_vars
    /\ [][hits' = hits + 1 => lives' = (IF lives > 0 THEN lives - 1 ELSE 0)]_vars
    /\ [][lives' < lives => hits' = hits + 1]_vars

\* The base has been struck once more than there were lives.
C9_Witness ==
    hits = INITIAL_LIVES + 1 /\ lives = 0

\* C10 as stated: numAsteroids = MAX_ASTEROIDS at the end of every call.
C10_PopulationConstant ==
    pc = "idle" => Len(asteroids) = MAX_ASTEROIDS

\* C10, amended: numAsteroids = MAX_ASTEROIDS until the first base strike; it
\* changes only in a base strike, which removes asteroids without replacing
\* them (exactly one in advance_asteroids, one to three in move_base), and at
\* the start of a new game.
C10_PopulationUntilStruck ==
    /\ [](/\ hits = 0 => Len(asteroids) = MAX_ASTEROIDS
          /\ Len(asteroids) <= MAX_ASTEROIDS - hits
          /\ Len(asteroids) >= MAX_ASTEROIDS - 3 * hits)
    /\ [][hits' = hits + 1
            => /\ Len(asteroids') < Len(asteroids)
               /\ pc = "advance_asteroids" => Len(asteroids') = Len(asteroids) - 1]_vars
    /\ [][Len(asteroids') # Len(asteroids) => hits' = hits + 1 \/ CallNewGame]_vars

\* A call has ended with one asteroid fewer than MAX_ASTEROIDS, after one base
\* strike and one collision with a projectile.
C10_Witness ==
    pc = "idle" /\ hits = 1 /\ score = 1 /\ Len(asteroids) = MAX_ASTEROIDS - 1

\* A pass of play_game's loop samples input and reaches the movement gates or
\* the pause loop.
PollStep == InLoop /\ pc' # pc

\* C11: with no button waiting, a pass that reads ESC with the decoder at 0,
\* and the next that reads '[', dispatch nothing and leave the game state
\* alone; the pass that reads the third byte c dispatches move_base(MOVE_LEFT)
\* for 'D', move_base(MOVE_RIGHT) for 'C', fire_projectile for 'A' and nothing
\* for any other c, and leaves the decoder at 0.
C11_EscapeSequence ==
    [][PollStep /\ buttonQ = <<>> /\ serialQ # <<>>
         => LET c == Head(serialQ)
            IN  /\ esc = 0 /\ c = ESCAPE_CHAR
                      => esc' = 1 /\ PollNone /\ UNCHANGED engine
                /\ esc = 1 /\ c = 91
                      => esc' = 2 /\ PollNone /\ UNCHANGED engine
                /\ esc = 2
                      => /\ esc' = 0
                         /\ c = 68 => DispatchMoveBase(MOVE_LEFT)
                         /\ c = 67 => DispatchMoveBase(MOVE_RIGHT)
                         /\ c = 65 => DispatchFire
                         /\ c \notin {65, 67, 68} => PollNone /\ UNCHANGED engine]_vars

\* ESC and '[' have been read by two passes that left the game as new_game made
\* it, and the third byte, 'D', waits to be read.
C11_Witness ==
    /\ InLoop /\ esc = 2 /\ buttonQ = <<>> /\ serialQ = <<68>>
    /\ events = 3 /\ basePosition = 3 /\ lives = INITIAL_LIVES /\ score = 0

\* The command play_game's if-chain selects for a button.
ButtonCommand(button) ==
    CASE button = 3 -> DispatchMoveBase(MOVE_LEFT)
      [] button = 2 -> DispatchFire
      [] button = 1 -> PollNone /\ UNCHANGED engine
      [] button = 0 -> DispatchMoveBase(MOVE_RIGHT)

\* C12: a pass of play_game's loop that finds a button push waiting dispatches
\* that button's command and no other, reads no serial byte (the serial bytes
\* waiting are all still waiting after the pass) and leaves the escape
\* sequence decoder as it was.
C12_ButtonPriority ==
    [][PollStep /\ buttonQ # <<>>
         => /\ ButtonCommand(Head(buttonQ))
            /\ pc' = "gate_p"
            /\ serialQ' = serialQ
            /\ esc' = esc]_vars

\* A freshly initialised game.
FreshGame ==
    /\ basePosition = 3
    /\ projectiles = <<>>
    /\ Len(asteroids) = MAX_ASTEROIDS
    /\ \A i \in 1 .. Len(asteroids) : asteroids[i] % 16 >= 3
    /\ lives = INITIAL_LIVES
    /\ score = 0

\* C13: the program starts at the splash screen and never returns to it; the
\* splash screen and the game-over wait are left only for new_game; new_game
\* is left only into play_game, with a freshly initialised game whatever state
\* the previous game ended in; play_game is left only for handle_game_over, and
\* only with lives = 0.
C13_TopLevelSequence ==
    /\ [][pc # "splash" => pc' # "splash"]_vars
    /\ [][pc' # pc /\ pc \in {"splash", "game_over"} => pc' = "new_game"]_vars
    /\ [][pc = "new_game" /\ pc' # pc => pc' = "play" /\ FreshGame']_vars
    /\ [][InPlayGame /\ ~InPlayGame' => pc' = "game_over" /\ lives = 0 /\ lives' = 0]_vars

\* A game has ended with the base away from the centre and asteroids missing,
\* the button that ends the game-over wait has been pushed, and new_game is
\* about to run.
C13_Witness ==
    pc = "new_game" /\ basePosition # 3 /\ Len(asteroids) < MAX_ASTEROIDS /\ hits >= INITIAL_LIVES

\* C14 as stated: in the game-over wait, any waiting input event, button push
\* or serial byte, lets the wait end.
C14_AnyInputEndsGameOver ==
    pc = "game_over" /\ (buttonQ # <<>> \/ serialQ # <<>>) => ENABLED HandleGameOver

\* C14, amended: the game-over wait can end exactly when a button push waits;
\* the step that ends it takes that push, sets lives to INITIAL_LIVES and goes
\* to new_game; a serial byte does not end the wait and is not read during it.
C14_ButtonEndsGameOver ==
    /\ [](pc = "game_over" => (ENABLED HandleGameOver <=> buttonQ # <<>>))
    /\ [][pc = "game_over" /\ pc' # pc
            => /\ buttonQ # <<>> /\ buttonQ' = Tail(buttonQ)
               /\ lives' = INITIAL_LIVES
               /\ pc' = "new_game"]_vars
    /\ [][pc = "game_over"
            => serialQ' = serialQ \/ \E c \in SerialBytes : serialQ' = Append(serialQ, c)]_vars

\* The game is over and a serial byte has arrived, but no button push: the
\* wait goes on.
C14_Witness ==
    pc = "game_over" /\ serialQ # <<>> /\ buttonQ = <<>> /\ ~ENABLED HandleGameOver

\* The time from the reading last to the reading now of the clock.
Elapsed(now, last) == Sub32(now, last)

\* Between last and now the clock has not passed zero, and last + interval
\* does not overflow.
NoWrap(now, last, interval) ==
    /\ Geq32(now, last)
    /\ Geq32(Add32(last, ToU32(interval)), last)

\* C15: the asteroids move at intervals of max(floor, 1000 - 5 * score) ms
\* for a positive floor: at the asteroid gate (the counter not having wrapped
\* since the last move) the asteroids are not advanced on a reading of the
\* clock that shows no time passed since they were last advanced, and they
\* are advanced once 1000 ms have passed, whatever the score.
C15_AsteroidInterval ==
    pc = "gate_a" /\ NoWrap(current_time, last_move_asteroid, 1000)
        => LET due == AsteroidsDue(current_time, last_move_asteroid, score)
               elapsed == Elapsed(current_time, last_move_asteroid)
           IN  /\ due => Geq32(elapsed, ToU32(1))
               /\ Geq32(elapsed, ToU32(1000)) => due

\* C16: the gates tolerate wraparound of the millisecond counter.  For every
\* pair of readings (last, now), the projectiles are advanced exactly when
\* (now - last) mod 2^32 has reached 200, the asteroids exactly when it has
\* reached 1000 - 5 * score (for the scores with 5 * score <= 1000), and the
\* display is refreshed exactly when it has reached the refresh interval.
C16_GatesTolerateWraparound ==
    /\ pc = "gate_p" /\ ~is_game_over(G)
          => (ProjectilesDue(current_time, last_move_time)
                <=> Geq32(Elapsed(current_time, last_move_time), ToU32(200)))
    /\ pc = "gate_a" /\ 5 * score <= 1000
          => (AsteroidsDue(current_time, last_move_asteroid, score)
                <=> Geq32(Elapsed(current_time, last_move_asteroid),
                          ToU32(1000 - 5 * score)))
    /\ pc = "display"
          => (RefreshGate(revision, current_time, previous_time)
                <=> Geq32(Elapsed(current_time, previous_time),
                          ToU32(RefreshInterval(revision))))

\* C17: a call of display_data made less than 3 ms after the last refresh
\* that took effect changes neither the segment output, nor seven_seg_cc,
\* nor previous_time, whatever the value displayed.
C17_RefreshIdempotent ==
    [][pc = "display" /\ pc' = "play"
          /\ Lt32(Elapsed(current_time, refreshed_at), ToU32(3))
         => UNCHANGED <<PORTA, seven_seg_cc, previous_time>>]_vars

\* The row advance_asteroids looks up for an asteroid at position a: y - 1 in
\* a uint8_t (line 265).
DestinationRow(a) == U8(GET_Y_POSITION(a) - 1)

\* C18: an iteration of advance_asteroids on an asteroid in row 0 makes no
\* lookup with a row outside the field, removes the asteroid (the last one
\* takes its slot) and appends a replacement in one of the top two rows; the
\* pass stays on the same slot.
C18_BottomExit ==
    [][IterAdvanceAsteroids /\ GET_Y_POSITION(asteroids[idx + 1]) = 0
         => /\ DestinationRow(asteroids[idx + 1]) < FIELD_HEIGHT
            /\ Len(asteroids') = Len(asteroids)
            /\ SubSeq(asteroids', 1, Len(asteroids) - 1)
                  = remove_asteroid(G, idx).asteroids
            /\ GET_Y_POSITION(asteroids'[Len(asteroids')]) >= FIELD_HEIGHT - 2
            /\ idx' = idx]_vars

\* The cell advance_asteroids tries for the asteroid in slot asteroidNumber:
\* one row down, or its own cell when an asteroid is one row down (lines 260
\* to 268).
Destination(g, asteroidNumber) ==
    LET a == g.asteroids[asteroidNumber + 1]
        x == GET_X_POSITION(a)
    IN  IF asteroid_at(g, x, DestinationRow(a)) # -1
        THEN <<x, GET_Y_POSITION(a)>>
        ELSE <<x, DestinationRow(a)>>

\* The four cells of the base.
Footprint ==
    {<<basePosition, 1>>, <<basePosition, 0>>,
     <<basePosition - 1, 0>>, <<basePosition + 1, 0>>}

\* The iteration of advance_asteroids about to run finds its asteroid's
\* destination on the base, with no projectile there.
StrikesBase ==
    /\ pc = "advance_asteroids" /\ idx < Len(asteroids)
    /\ Destination(G, idx) \in Footprint
    /\ ~Occupies(projectiles, Destination(G, idx)[1], Destination(G, idx)[2])

\* C19: when the destination of an asteroid in advance_asteroids is a cell of
\* the base and holds no projectile, one life is subtracted if any is left,
\* the asteroid is removed (the last one takes its slot) and none is added,
\* score and projectiles stay, and the pass goes on with the same slot.
C19_BaseStrike ==
    [][StrikesBase /\ IterAdvanceAsteroids
         => /\ lives' = (IF lives > 0 THEN lives - 1 ELSE 0)
            /\ asteroids' = remove_asteroid(G, idx).asteroids
            /\ Len(asteroids') = Len(asteroids) - 1
            /\ score' = score /\ projectiles' = projectiles
            /\ idx' = idx /\ hits' = hits + 1]_vars

\* The second advance_asteroids call of a game has struck the base with the
\* asteroid of slot 0 (before the second call no asteroid is below row 2, so no
\* other call can have struck it), and goes on with the asteroid swapped in.
C19_Witness ==
    /\ pc = "advance_asteroids" /\ events = 2 /\ hits = 1
    /\ idx = 0 /\ Len(asteroids) = MAX_ASTEROIDS - 1
    /\ lives = INITIAL_LIVES - 1 /\ score = 0

\* The cells move_base checks around the base at column b.
Checked(b) == {<<b, 1>>, <<b - 1, 0>>, <<b + 1, 0>>}

\* The positions of the asteroids on the cells of the set cells.
Struck(cells) ==
    { asteroids[i] : i \in { j \in 1 .. Len(asteroids) :
          <<GET_X_POSITION(asteroids[j]), GET_Y_POSITION(asteroids[j])>> \in cells } }

\* The positions held by the members of a collection.
Positions(collection) == { collection[i] : i \in 1 .. Len(collection) }

\* C20: a move_base call that moves the base returns 1; if asteroids lie on
\* the cells it checks around the new position, exactly those asteroids are
\* removed and one life is subtracted in total (none at lives = 0); if none
\* lies there, lives and asteroids are unchanged.  Score and projectiles are
\* unchanged in both cases.
C20_MoveOntoAsteroids ==
    [][\A direction \in {MOVE_LEFT, MOVE_RIGHT} :
          MoveBaseCall(direction) /\ ~AtEdge(direction)
             => LET struck == Struck(Checked(basePosition'))
                IN  /\ ret' = 1
                    /\ score' = score /\ projectiles' = projectiles
                    /\ struck # {}
                          => /\ lives' = (IF lives > 0 THEN lives - 1 ELSE 0)
                             /\ Positions(asteroids') = Positions(asteroids) \ struck
                             /\ Len(asteroids') = Len(asteroids) - Cardinality(struck)
                             /\ hits' = hits + 1
                    /\ struck = {}
                          => lives' = lives /\ asteroids' = asteroids /\ hits' = hits]_vars

\* A move of the base to column 4 has removed two asteroids at once for one
\* life: three strikes have cost three lives and four asteroids, and a strike
\* in advance_asteroids removes one asteroid.
C20_Witness ==
    /\ pc = "idle" /\ ret = 1 /\ basePosition = 4 /\ events = 4
    /\ hits = 3 /\ lives = INITIAL_LIVES - 3
    /\ Len(asteroids) = MAX_ASTEROIDS - 4 /\ score = 0

\* C21: between two engine calls no asteroid is on a cell of the base:
\* (basePosition, 1), (basePosition, 0), (basePosition - 1, 0) or
\* (basePosition + 1, 0).
C21_FootprintClear ==
    pc = "idle" => \A c \in Footprint : ~Occupies(asteroids, c[1], c[2])

\* The base has moved to column 4 onto asteroids, and an asteroid is still in
\* one of the two bottom rows, off the base.
C21_Witness ==
    /\ pc = "idle" /\ ret = 1 /\ basePosition = 4 /\ hits >= 1
    /\ \E i \in 1 .. Len(asteroids) : GET_Y_POSITION(asteroids[i]) <= 1

\* An advance pass is about to handle the member in slot idx of collection.
Handling(name, collection) == pc = name /\ idx < Len(collection)

\* C22: each advance pass handles every member present at its start exactly
\* once.  No iteration handles a member the pass has already moved, and at the
\* end of the pass none is left unhandled.  An iteration of
\* advance_projectiles removes its projectile when the next row is
\* FIELD_HEIGHT or holds an asteroid and moves it up by exactly one row
\* otherwise.  An iteration of advance_asteroids on an asteroid present at the
\* start removes it or leaves it in its column, in its row or one row down.
C22_EachHandledOnce ==
    /\ [](Handling("advance_projectiles", projectiles)
             => projectiles[idx + 1] \notin done)
    /\ [](Handling("advance_asteroids", asteroids)
             => asteroids[idx + 1] \notin done)
    /\ [](pc = "advance_projectiles" /\ ~(idx < Len(projectiles)) => pending = {})
    /\ [](pc = "advance_asteroids" /\ ~(idx < Len(asteroids)) => pending = {})
    /\ [][IterAdvanceProjectiles
            => LET p == projectiles[idx + 1]
                   x == GET_X_POSITION(p)
                   y == GET_Y_POSITION(p)
               IN  IF y + 1 = FIELD_HEIGHT \/ Occupies(asteroids, x, y + 1)
                   THEN /\ Positions(projectiles') = Positions(projectiles) \ {p}
                        /\ Len(projectiles') = Len(projectiles) - 1
                        /\ idx' = idx
                   ELSE /\ projectiles' = [projectiles EXCEPT ![idx + 1] = 16 * x + y + 1]
                        /\ idx' = idx + 1]_vars
    /\ [][IterAdvanceAsteroids /\ asteroids[idx + 1] \in pending
            => LET a == asteroids[idx + 1]
               IN  \/ idx' = idx /\ Len(asteroids') <= Len(asteroids)
                   \/ /\ idx' = idx + 1
                      /\ GET_X_POSITION(asteroids'[idx + 1]) = GET_X_POSITION(a)
                      /\ GET_Y_POSITION(asteroids'[idx + 1])
                            \in {GET_Y_POSITION(a), GET_Y_POSITION(a) - 1}]_vars

----------------------------------------------------------------------------
\* SpecSpawn: the engine started from a crowded field.  initialise_game draws
\* MAX_ASTEROIDS distinct cells of rows 3 .. FIELD_HEIGHT - 1, so when
\* MAX_ASTEROIDS exceeds 2 * FIELD_WIDTH a layout can hold an asteroid in
\* every cell of the top two rows.

\* The cells of the top two rows, all FIELD_WIDTH columns, in position order.
TopTwoRows ==
    [i \in 1 .. (2 * FIELD_WIDTH) |->
        GAME_POSITION((i - 1) \div 2, FIELD_HEIGHT - 2 + ((i - 1) % 2))]

\* Layouts of 2 * FIELD_WIDTH + 1 asteroids: one drawn in front of the base
\* rows, the others filling the top two rows.
CrowdedLayouts ==
    { <<GAME_POSITION(c[1], c[2])>> \o TopTwoRows : c \in RandomColumns \X InitRows }

InitSpawn ==
    /\ \E g \in new_game(Zero, CrowdedLayouts) :
          /\ basePosition = g.basePosition
          /\ projectiles = g.projectiles
          /\ asteroids = g.asteroids
          /\ lives = g.lives
          /\ score = g.score
    /\ pc = "idle" /\ idx = 0 /\ ret = -1
    /\ buttonQ = <<>> /\ serialQ = <<>> /\ esc = 0
    /\ events = 0 /\ hits = 0
    /\ SchedIdle
    /\ pending = {} /\ done = {}
    /\ JoystickIdle

NextSpawn ==
    \/ CallMoveBase
    \/ CallFireProjectile
    \/ CallAdvanceProjectiles
    \/ IterAdvanceProjectiles
    \/ EndAdvanceProjectiles
    \/ CallAdvanceAsteroids
    \/ IterAdvanceAsteroids
    \/ EndAdvanceAsteroids

SpecSpawn == InitSpawn /\ [][NextSpawn]_vars

\* What is left to do of an advance_asteroids pass: the slots not yet reached
\* and the projectiles a collision can still consume.
AsteroidsLeft == (Len(asteroids) - idx) + Len(projectiles)

\* C23: every engine entry point terminates.  A call of fire_projectile and
\* an iteration of either advance loop always has an outcome (the re-roll
\* loop of add_asteroid finds a cell of the top two rows without an asteroid),
\* every iteration of advance_projectiles brings projectileNumber closer to
\* numProjectiles, and every iteration of advance_asteroids reduces the slots
\* and projectiles left.
C23_EngineTerminates ==
    /\ [](pc = "idle" => fire_projectile(G) # {})
    /\ [](Handling("advance_projectiles", projectiles)
             => advance_projectiles_iter(G, idx) # {})
    /\ [](Handling("advance_asteroids", asteroids)
             => advance_asteroids_iter(G, idx) # {})
    /\ [][IterAdvanceProjectiles
             => Len(projectiles') - idx' < Len(projectiles) - idx]_vars
    /\ [][IterAdvanceAsteroids => AsteroidsLeft' < AsteroidsLeft]_vars

\* The steps of play_game itself, as opposed to the interrupts that queue
\* input.
PlayStep ==
    \/ LeavePlay
    \/ PollNone
    \/ DispatchMove
    \/ DispatchFire
    \/ DispatchPause
    \/ PausedRead
    \/ GateProjectiles
    \/ IterAdvanceProjectiles
    \/ GameEndAdvanceProjectiles
    \/ GateAsteroids
    \/ IterAdvanceAsteroids
    \/ GameEndAdvanceAsteroids

\* Control is inside play_game.
Playing ==
    pc \in {"play", "paused", "gate_p", "advance_projectiles", "gate_a", "advance_asteroids"}

\* play_game cannot take a step until more input arrives.
WaitsOnInput == Playing /\ ~ENABLED PlayStep

\* C24 as stated: play_game never waits on input; whatever command was
\* dispatched ('p' included), its next step can be taken with the input
\* already queued.
C24_NeverWaitsOnInput == [](~WaitsOnInput)

\* C24, amended: play_game waits on input only in the pause branch, with
\* nothing left to read, and it leaves the pause branch only by reading 'p'
\* or 'P', for the projectile gate.
C24_WaitsOnlyWhenPaused ==
    /\ [](WaitsOnInput => pc = "paused" /\ serialQ = <<>>)
    /\ [][(pc = "paused" /\ pc' # "paused")
             => Head(serialQ) \in {112, 80} /\ pc' = "gate_p"]_vars

\* The game is paused with no byte to read, after a strike of the base.
C24_Witness == pc = "paused" /\ serialQ = <<>> /\ hits >= 1

----------------------------------------------------------------------------
\* SpecFeedback: SpecGame with the input that arrives while redraw_hit_base
\* runs.  The wait of redraw_hit_base lasts about a second with interrupts
\* enabled; what the interrupts queue in that time is behind the input that
\* was already waiting when the base was struck, and is in the queues when
\* redraw_hit_base reaches (void)button_pushed(); clear_serial_input_buffer().

\* The button pushes and the serial bytes that arrive during one wait.
ArrivedButtons(hit) ==
    IF hit THEN {<<>>} \cup { <<b>> : b \in Buttons } ELSE {<<>>}

ArrivedBytes(hit) ==
    IF hit THEN {<<>>} \cup { <<c>> : c \in {32, ESCAPE_CHAR} } ELSE {<<>>}

FeedbackDispatchMoveBase(direction) ==
    /\ InLoop
    /\ Sampled.cmd = (IF direction = MOVE_LEFT THEN "left" ELSE "right")
    /\ \E r \in {move_base(G, direction)} :
         \E a \in ArrivedButtons(r.hit), c \in ArrivedBytes(r.hit) :
            Apply(r, Sampled.bq \o a, Sampled.sq \o c) /\ ret' = r.ret
    /\ esc' = Sampled.esc
    /\ pc' = "gate_p"
    /\ UNCHANGED <<idx, events>>
    /\ UNCHANGED sched
    /\ UNCHANGED joystick
    /\ UNCHANGED passes

FeedbackDispatchMove ==
    \E direction \in {MOVE_LEFT, MOVE_RIGHT} : FeedbackDispatchMoveBase(direction)

FeedbackIterAdvanceAsteroids ==
    /\ pc = "advance_asteroids" /\ idx < Len(asteroids)
    /\ \E r \in advance_asteroids_iter(G, idx) :
         \E a \in ArrivedButtons(r.hit), c \in ArrivedBytes(r.hit) :
            /\ Apply(r, buttonQ \o a, serialQ \o c) /\ idx' = r.next
            /\ Handled(asteroids, r.g.asteroids, r.next)
    /\ UNCHANGED <<pc, ret, esc, events>>
    /\ UNCHANGED sched
    /\ UNCHANGED joystick

NextFeedback ==
    \/ ButtonPush
    \/ SerialReceive
    \/ SplashScreen
    \/ NewGame
    \/ LeavePlay
    \/ PollNone
    \/ FeedbackDispatchMove
    \/ DispatchFire
    \/ DispatchPause
    \/ PausedRead
    \/ GateProjectiles
    \/ IterAdvanceProjectiles
    \/ GameEndAdvanceProjectiles
    \/ GateAsteroids
    \/ FeedbackIterAdvanceAsteroids
    \/ GameEndAdvanceAsteroids
    \/ HandleGameOver

SpecFeedback == InitGame /\ [][NextFeedback]_vars

\* C25: all input that accumulated during the hit-feedback sequence is
\* discarded on its exit: when redraw_hit_base has returned, no button push
\* and no serial byte is queued.  (At most one push waits when the base is
\* struck and the oldest is dropped first, so what is still queued arrived
\* while redraw_hit_base ran.)
C25_FeedbackInputDiscarded ==
    [][hits' = hits + 1 => buttonQ' = <<>> /\ serialQ' = <<>>]_vars

\* On the wrapping clock, the reading now is not earlier than the reading t.
NotEarlier(now, t) == Elapsed(now, t).hi < HALF \div 2

\* C26: the hit-feedback pause is not counted as elapsed game time.  When
\* redraw_hit_base has returned, the clock is not earlier than the times kept
\* of the last projectile move, the last asteroid move and the last display
\* refresh, and a movement gate that was not due on the clock as redraw_hit_base
\* found it is not due on the clock as it leaves it.
C26_PauseNotCounted ==
    [][hits' = hits + 1
         => /\ NotEarlier(clock', last_move_time')
            /\ NotEarlier(clock', last_move_asteroid')
            /\ NotEarlier(clock', previous_time')
            /\ ~ProjectilesDue(clock, last_move_time)
                  => ~ProjectilesDue(clock', last_move_time)
            /\ ~AsteroidsDue(clock, last_move_asteroid, score)
                  => ~AsteroidsDue(clock', last_move_asteroid, score)]_vars

\* redraw_hit_base has just waited its second (start_time + 1000 did not
\* overflow) and returned, in advance_asteroids, some time after the clock
\* was read: the display's refresh time is three behind the clock and the
\* projectile gate, not due before, is still not due.
C26_Witness ==
    /\ pc = "display" /\ hits >= 1 /\ ticks >= 1
    /\ Lt32(clock, Add32(clock, ToU32(1000)))
    /\ previous_time = Sub32(clock, ToU32(3))
    /\ current_time # clock
    /\ ~ProjectilesDue(clock, last_move_time)

\* The display_data call of play_game passes the gate.
EffectiveRefresh ==
    SchedDisplay /\ RefreshGate(revision, current_time, previous_time)

\* C27 as stated: every refresh that passes the gate flips the digit-select
\* flag, whatever the value displayed, and sets previous_time to the time of
\* the call.
C27_RefreshFlipsDigit ==
    [][EffectiveRefresh
         => seven_seg_cc' = 1 - seven_seg_cc /\ previous_time' = current_time]_vars

\* C27, amended: a refresh that passes the gate sets previous_time to the time
\* of the call; it flips the digit-select flag when the value is 10 or more,
\* and for a value below 10 it sets the flag to 0 and drives the last digit
\* again.
C27_RefreshFlipsTwoDigits ==
    [][EffectiveRefresh
         => /\ previous_time' = current_time
            /\ seven_seg_cc' = IF display_value' < 10 THEN 0 ELSE 1 - seven_seg_cc
            /\ PORTA' = seven_seg_data[Digit(display_value', seven_seg_cc') + 1]]_vars

\* The display has just been refreshed, later than the start of the run and
\* not by redraw_hit_base, with a value below 10 and the flag at 0.
C27_Witness ==
    /\ pc = "play" /\ hits = 0 /\ ticks >= 1
    /\ previous_time = current_time /\ current_time \notin Clocks
    /\ display_value < 10 /\ seven_seg_cc = 0

----------------------------------------------------------------------------
\* SpecRise: the engine with a projectile high in the field.  initialise_game
\* has left column 4 free of asteroids; the base has moved to column 4 and
\* fired, and advance_projectiles has been called until the projectile, with
\* nothing in its way, is RiseRows up.  The engine calls go on from there.

\* Layouts that leave column 4 free: the asteroids in columns 3 and 5, rows 3
\* to 5, in increasing order of position.
RiseLayouts ==
    { s \in [1 .. MAX_ASTEROIDS -> { GAME_POSITION(c[1], c[2]) : c \in {3, 5} \X (3 .. 5) }] :
        \A i \in 1 .. (MAX_ASTEROIDS - 1) : s[i] < s[i + 1] }

RiseRows == {FIELD_HEIGHT - 4, FIELD_HEIGHT - 3}

InitRise ==
    /\ \E g \in new_game(Zero, RiseLayouts) :
          /\ asteroids = g.asteroids
          /\ lives = g.lives
          /\ score = g.score
    /\ basePosition = 4
    /\ \E y \in RiseRows : projectiles = <<GAME_POSITION(4, y)>>
    /\ pc = "idle" /\ idx = 0 /\ ret = -1
    /\ buttonQ = <<>> /\ serialQ = <<>> /\ esc = 0
    /\ events = 0 /\ hits = 0
    /\ SchedIdle
    /\ pending = {} /\ done = {}
    /\ JoystickIdle

SpecRise == InitRise /\ [][NextSpawn]_vars

\* C28: between two engine operations no asteroid and projectile share a
\* cell, also right after a replacement asteroid has been spawned in the top
\* two rows.
C28_NoSharedCell ==
    pc = "idle" => Positions(asteroids) \cap Positions(projectiles) = {}

\* 'l', 'L', 'r', 'R' and space.
PlainCommands == {108, 76, 114, 82, 32}

\* The command play_game selects when its next serial byte is byte and no
\* button is waiting, the decoder being as it is now.
Dispatched(byte) ==
    LET d == DecodeByte(esc, byte)
    IN  Command(NO_BUTTON_PUSHED, d.escape_sequence_char, d.serial_input)

\* C29: whenever pending serial input is discarded, by redraw_hit_base or by
\* new_game, the escape decoder is idle for the next byte read (the decoder
\* changes only when a byte is read): a plain command character coming first
\* after the discard is dispatched, not taken for the tail of an escape
\* sequence.
C29_DecoderIdleAfterDiscard ==
    [][(hits' = hits + 1 \/ NewGame)
          => /\ serialQ' = <<>>
             /\ esc' = 0
             /\ \A byte \in PlainCommands : Dispatched(byte)' # "none"]_vars

\* advance_projectiles or advance_asteroids is called.
AdvanceInvoked ==
    \/ pc # "advance_projectiles" /\ pc' = "advance_projectiles"
    \/ pc # "advance_asteroids" /\ pc' = "advance_asteroids"

\* C30: once lives is 0 inside play_game, the entities are frozen until the
\* game is over: no step changes the asteroids or the projectiles, and neither
\* advance_projectiles nor advance_asteroids is called.
C30_FrozenAtZeroLives ==
    [][lives = 0 /\ Playing
          => UNCHANGED <<asteroids, projectiles>> /\ ~AdvanceInvoked]_vars

----------------------------------------------------------------------------
\* SpecJoystick: the movement queue of joystick.c under any sequence of
\* step_joystick and joystick_moved calls.  The analogue readings and the
\* calibration values of init_joystick are inputs.

\* uint16_t arithmetic (unsigned int of the AVR is 16 bits wide).
Sub16(a, b) == (a - b + HALF) % HALF
Add16(a, b) == (a + b) % HALF

\* Readings of the 10-bit converter: the ends of the range, the centre, and
\* a little more than 100 off the centre either way.
ADCValues == {0, 400, 512, 620, 1023}

\* What init_joystick can have left in up_down_cal and left_right_cal: a
\* stick at rest in the centre, or a reading of 0 (also the value before
\* init_joystick has run).
Calibrations == {0, 512}

\* Bound: the movements step_joystick stores in one run.
MaxMoves == 6

\* The movement step_joystick stores for the reading value (lines 144 to
\* 150), NO_JOYSTICK_MOVEMENT for none.
Movement(value) ==
    IF x_or_y = 1 /\ (value < Sub16(up_down_cal, 100) \/ value > Add16(up_down_cal, 100))
    THEN 3
    ELSE IF value < Sub16(left_right_cal, 100) THEN 2
    ELSE IF value > Add16(left_right_cal, 100) THEN 1
    ELSE NO_JOYSTICK_MOVEMENT

\* joystick_queue[queue_length++] = m with queue_length = -1 writes the byte
\* in front of the array.  What that byte belongs to is the linker's choice:
\* a byte the queue does not depend on, queue_length itself (which then holds
\* m or, if the increment is stored last, 0), or x_or_y.  Each result is the
\* pair of queue_length and x_or_y after the statement.
WriteInFront(m) ==
    { <<0, x_or_y>>, <<m, x_or_y>>, <<0, m>> }

\* x_or_y ^= 1
Toggle(x) == IF x % 2 = 0 THEN x + 1 ELSE x - 1

InitJoystick ==
    /\ basePosition = Zero.basePosition
    /\ projectiles = Zero.projectiles
    /\ asteroids = Zero.asteroids
    /\ lives = Zero.lives
    /\ score = Zero.score
    /\ pc = "joystick" /\ idx = 0 /\ ret = -1
    /\ buttonQ = <<>> /\ serialQ = <<>> /\ esc = 0
    /\ events = 0 /\ hits = 0
    /\ SchedIdle
    /\ pending = {} /\ done = {}
    /\ joystick_queue = [i \in 0 .. (JOYSTICK_Q_SIZE - 1) |-> 0]
    /\ queue_length = -1
    /\ x_or_y = 0
    /\ up_down_cal \in Calibrations /\ left_right_cal \in Calibrations
    /\ recorded = <<>> /\ returned = <<>> /\ written = {}

\* step_joystick with the converter reading value.
StepJoystickReading(value) ==
    /\ pc = "joystick"
    /\ IF queue_length > 3
       THEN UNCHANGED <<joystick_queue, queue_length, x_or_y, recorded, written>>
       ELSE LET m == Movement(value)
            IN  IF m = NO_JOYSTICK_MOVEMENT
                THEN /\ x_or_y' = Toggle(x_or_y)
                     /\ UNCHANGED <<joystick_queue, queue_length, recorded, written>>
                ELSE /\ Len(recorded) < MaxMoves
                     /\ recorded' = Append(recorded, m)
                     /\ written' = written \cup {queue_length}
                     /\ IF queue_length \in 0 .. (JOYSTICK_Q_SIZE - 1)
                        THEN /\ joystick_queue' = [joystick_queue EXCEPT ![queue_length] = m]
                             /\ queue_length' = queue_length + 1
                             /\ x_or_y' = Toggle(x_or_y)
                        ELSE /\ UNCHANGED joystick_queue
                             /\ \E w \in WriteInFront(m) :
                                   /\ queue_length' = w[1]
                                   /\ x_or_y' = Toggle(w[2])
    /\ ret' = -1
    /\ UNCHANGED <<up_down_cal, left_right_cal, returned>>
    /\ UNCHANGED <<engine, pc, idx, input, events, hits>>
    /\ UNCHANGED sched
    /\ UNCHANGED passes

StepJoystick == \E value \in ADCValues : StepJoystickReading(value)

\* joystick_moved
JoystickMoved ==
    /\ pc = "joystick"
    /\ IF queue_length > 0
       THEN /\ ret' = joystick_queue[0]
            /\ joystick_queue' =
                  [i \in 0 .. (JOYSTICK_Q_SIZE - 1) |->
                      IF i + 1 < queue_length THEN joystick_queue[i + 1]
                      ELSE joystick_queue[i]]
            /\ queue_length' = queue_length - 1
            /\ returned' = Append(returned, joystick_queue[0])
       ELSE /\ ret' = NO_JOYSTICK_MOVEMENT
            /\ UNCHANGED <<joystick_queue, queue_length, returned>>
    /\ UNCHANGED <<x_or_y, up_down_cal, left_right_cal, recorded, written>>
    /\ UNCHANGED <<engine, pc, idx, input, events, hits>>
    /\ UNCHANGED sched
    /\ UNCHANGED passes

NextJoystick ==
    \/ StepJoystick
    \/ JoystickMoved

SpecJoystick == InitJoystick /\ [][NextJoystick]_vars

\* s is the start of t.
IsPrefix(s, t) == Len(s) <= Len(t) /\ \A i \in 1 .. Len(s) : s[i] = t[i]

\* C31: the joystick queue is a bounded FIFO.  From the initial state on,
\* every index written into joystick_queue is in 0 .. JOYSTICK_Q_SIZE - 1,
\* queue_length is in 0 .. JOYSTICK_Q_SIZE, the movements joystick_moved has
\* returned are the first of those step_joystick has stored, in the same
\* order, and joystick_moved returns NO_JOYSTICK_MOVEMENT exactly when every
\* stored movement has been returned.
C31_BoundedFifo ==
    /\ [](written \subseteq 0 .. (JOYSTICK_Q_SIZE - 1))
    /\ [](queue_length \in 0 .. JOYSTICK_Q_SIZE)
    /\ [](IsPrefix(returned, recorded))
    /\ [][JoystickMoved
            => (ret' = NO_JOYSTICK_MOVEMENT <=> Len(returned) = Len(recorded))]_vars
====
